---- MODULE Spec2Model ----
(***************************************************************************)
(* Model of hv/commands/gitlab.py: the memoised project-id lookup, the     *)
(* concurrent per-project fetch of Renovate merge requests, and the        *)
(* concurrent approve-then-merge pipeline.                                 *)
(*                                                                         *)
(* Also hv/commands/gcloud.py (the policy-tag fan-out) and                 *)
(* hv/commands/git.py (reset-history and squash).                          *)
(*                                                                         *)
(* The specifications share the variables:                                 *)
(*   SpecCache    - a process calling get_project_id / cache_command       *)
(*   SpecFetch    - one call of get_renovate_mrs                           *)
(*   SpecMutate   - one call of process_all_mrs                            *)
(*   SpecRenovate - one run of renovate_command (SpecRenovateLive: fair)   *)
(*   SpecPool     - get_renovate_mrs with more projects than workers       *)
(*   SpecPaths    - get_project_paths                                      *)
(*   SpecPolicy   - one call of _fetch_all_policy_tags                     *)
(*   SpecGit      - one run of git reset-history or git squash             *)
(***************************************************************************)
EXTENDS Integers, Sequences, FiniteSets, TLC

\* ---------------------------------------------------------------- bounds
MaxOps == 4
MaxProjects == 2
MaxRecords == 2
MaxMrs == 2
MaxWorkers == 2
MaxArgs == 2

\* ---------------------------------------------------------------- values
\* Python None in an integer slot; project ids returned by the remote are > 0.
NoneVal == -1
Paths == {"org-a/proj-x", "org-b/proj-y"}
Ids == {101, 202}
OkStatus == 200
ApprovedStatus == 201
ErrStatus == 404

VARIABLES
  token,          \* get_credential("gitlab","token") is present
  dry_run,        \* renovate_command: the --execute/--dry-run option
  answer,         \* renovate_command: what typer.confirm returned, if asked
  ended,          \* renovate_command: how the command ended and its exit code
  pathArgs,       \* arguments and configuration of get_project_paths
  policy,         \* gcloud policy_id: the work items of _fetch_all_policy_tags
  git,            \* git reset-history / squash: prompts, git commands, repository
  cache,          \* lru_cache dictionary of get_project_id: path -> result
  hits, misses,   \* lru_cache counters
  lookups,        \* requests.get calls issued by get_project_id, per path
  cc,             \* SpecCache: the get_project_id call in progress
  callLog,        \* SpecCache: calls finished since the last cache_clear
  shown,          \* SpecCache: statistics last printed by cache_command
  nOps,           \* SpecCache: operations started (bounded by MaxOps)
  project_paths,  \* argument of get_renovate_mrs
  unit,           \* one executor work item per project path
  overtaken,      \* a work item completed before one that precedes it
  main,           \* position of the calling coroutine / command
  mrs,            \* list returned by get_renovate_mrs / given to process_all_mrs
  printed,        \* lines printed so far (a bag: line -> count)
  rec,            \* one process_mr task per record
  result          \* value returned by process_all_mrs

vars == <<token, dry_run, answer, ended, pathArgs, policy, git, cache, hits, misses, lookups, cc, callLog, shown, nOps,
          project_paths, unit, overtaken, main, mrs, printed, rec, result>>

cmdVars == <<dry_run, answer, ended, pathArgs, policy, git>>
cacheVars == <<cache, hits, misses, lookups>>
cacheCmdVars == <<cc, callLog, shown, nOps>>
fetchVars == <<project_paths, unit, overtaken>>
mutateVars == <<rec, result>>

\* the command is still running
NotEnded == [how |-> "running", code |-> 0]

\* get_project_paths has not been called
NoPathArgs == [nros |-> << >>, types |-> << >>, base_path |-> "", template |-> << >>]

\* a dict with no key
EmptyDict == [t \in {} |-> {}]

\* _fetch_all_policy_tags has not been called
NoPolicy == [nros |-> << >>, task |-> << >>, all_policy_tags |-> EmptyDict]

\* a repository before its first commit; no git command of hv has run
NoRepo == [branch |-> "main", log |-> << >>, fork |-> 0, staged |-> FALSE,
           loose |-> 0]
NoGit == [cmd |-> "none", pc |-> "none", asked |-> << >>, ran |-> << >>,
          repo |-> NoRepo, repo0 |-> NoRepo, message |-> << >>,
          base_branch |-> "main"]

\* ------------------------------------------------------------ lru_cache
EmptyCache == [p \in {} |-> NoneVal]

NoLookups == [p \in Paths |-> 0]

CacheStoreNever(c, p, v) == c

\* dict[key] = result
CacheStore(c, p, v) ==
  [q \in (DOMAIN c) \cup {p} |-> IF q = p THEN v ELSE c[q]]

\* cache_info().currsize
CurrSize == Cardinality(DOMAIN cache)

\* `if not project_id`
Falsy(v) == v = NoneVal \/ v = 0

\* What one requests.get of get_project_id can come back with:
\* status 200 with an id, another status, or a raised exception.
LookupOutcomes ==
  [kind : {"ok"}, id : Ids] \cup {[kind |-> "status", id |-> NoneVal],
                                  [kind |-> "exc", id |-> NoneVal]}

\* the remote directory of the fetch runs: the id each path resolves to
RemoteId == [p \in Paths |-> IF p = "org-a/proj-x" THEN 101 ELSE 202]

\* What the request of get_project_id for path p can come back with there.
DirectoryOutcomes(p) ==
  {o \in LookupOutcomes : o.kind = "ok" => o.id = RemoteId[p]}

\* ------------------------------------------------------------- printing
\* print(...): the lines printed so far, as a bag (line -> copies)
NoLines == [l \in {} |-> 0]

Line(kind, msg, pid, what) ==
  [kind |-> kind, msg |-> msg, pid |-> pid, n |-> 0, what |-> what]

PrintLine(b, l) ==
  IF l \in DOMAIN b
  THEN [b EXCEPT ![l] = @ + 1]
  ELSE [k \in (DOMAIN b) \cup {l} |-> IF k = l THEN 1 ELSE b[k]]

Copies(b, l) == IF l \in DOMAIN b THEN b[l] ELSE 0

NoResult == [set |-> FALSE, success_count |-> 0, total |-> 0]

\* ------------------------------------------------------------ SpecCache
Idle == [pc |-> "idle", path |-> "", hit |-> FALSE]

GetProjectIdCallHitUncounted(p) ==
  /\ cc.pc = "idle"
  /\ nOps < MaxOps
  /\ nOps' = nOps + 1
  /\ IF p \in DOMAIN cache
     THEN /\ hits' = hits
          /\ callLog' = Append(callLog,
                 [path |-> p, kind |-> "hit", value |-> cache[p], net |-> FALSE])
          /\ UNCHANGED <<misses, cc, lookups>>
     ELSE /\ misses' = misses + 1
          /\ IF token
             THEN /\ cc' = [pc |-> "lookup", path |-> p, hit |-> FALSE]
                  /\ lookups' = [lookups EXCEPT ![p] = @ + 1]
                  /\ UNCHANGED callLog
             ELSE \* raise typer.Exit: nothing stored, no request
                  /\ callLog' = Append(callLog,
                       [path |-> p, kind |-> "exit", value |-> NoneVal, net |-> FALSE])
                  /\ UNCHANGED <<cc, lookups>>
          /\ UNCHANGED hits
  /\ UNCHANGED <<token, cmdVars, cache, shown, project_paths, unit, overtaken, main, mrs, printed,
                 rec, result>>

\* get_project_id(p), up to the point where the wrapper either answers from
\* the dictionary (hit) or has counted a miss and entered the function body.
GetProjectIdCall(p) ==
  /\ cc.pc = "idle"
  /\ nOps < MaxOps
  /\ nOps' = nOps + 1
  /\ IF p \in DOMAIN cache
     THEN /\ hits' = hits + 1
          /\ callLog' = Append(callLog,
                 [path |-> p, kind |-> "hit", value |-> cache[p], net |-> FALSE])
          /\ UNCHANGED <<misses, cc, lookups>>
     ELSE /\ misses' = misses + 1
          /\ IF token
             THEN /\ cc' = [pc |-> "lookup", path |-> p, hit |-> FALSE]
                  /\ lookups' = [lookups EXCEPT ![p] = @ + 1]
                  /\ UNCHANGED callLog
             ELSE \* raise typer.Exit: nothing stored, no request
                  /\ callLog' = Append(callLog,
                       [path |-> p, kind |-> "exit", value |-> NoneVal, net |-> FALSE])
                  /\ UNCHANGED <<cc, lookups>>
          /\ UNCHANGED hits
  /\ UNCHANGED <<token, cmdVars, cache, shown, project_paths, unit, overtaken, main, mrs, printed,
                 rec, result>>

\* the request of get_project_id comes back
GetProjectIdReturn(o) ==
  /\ cc.pc = "lookup"
  /\ cc' = Idle
  /\ IF o.kind = "exc"
     THEN UNCHANGED cache
     ELSE cache' = CacheStore(cache, cc.path, o.id)
  /\ callLog' = Append(callLog,
        [path |-> cc.path, kind |-> o.kind, value |-> o.id, net |-> TRUE])
  /\ UNCHANGED <<token, cmdVars, hits, misses, lookups, shown, nOps, project_paths, unit, overtaken,
                 main, mrs, printed, rec, result>>

\* what cache_command has printed last; nothing yet
NoStats == [hits |-> 0, misses |-> 0, size |-> 0, cleared |-> FALSE]

CacheCommandKeepCounters(clear) ==
  /\ cc.pc = "idle"
  /\ nOps < MaxOps
  /\ nOps' = nOps + 1
  /\ IF clear
     THEN /\ cache' = EmptyCache
          /\ callLog' = << >>
          /\ UNCHANGED <<hits, misses>>
     ELSE UNCHANGED <<cache, hits, misses, callLog>>
  /\ shown' = [hits |-> hits', misses |-> misses',
               size |-> Cardinality(DOMAIN cache'), cleared |-> clear]
  /\ UNCHANGED <<token, cmdVars, lookups, cc, project_paths, unit, overtaken, main, mrs, printed,
                 rec, result>>

\* cache_command(clear): cache_clear() when asked to, then the statistics of
\* cache_info() are printed
CacheCommand(clear) ==
  /\ cc.pc = "idle"
  /\ nOps < MaxOps
  /\ nOps' = nOps + 1
  /\ IF clear
     THEN /\ cache' = EmptyCache
          /\ hits' = 0
          /\ misses' = 0
          /\ callLog' = << >>
     ELSE UNCHANGED <<cache, hits, misses, callLog>>
  /\ shown' = [hits |-> hits', misses |-> misses',
               size |-> Cardinality(DOMAIN cache'), cleared |-> clear]
  /\ UNCHANGED <<token, cmdVars, lookups, cc, project_paths, unit, overtaken, main, mrs, printed,
                 rec, result>>

InitCache ==
  /\ token \in BOOLEAN
  /\ dry_run = TRUE
  /\ answer = "none"
  /\ ended = NotEnded
  /\ pathArgs = NoPathArgs
  /\ policy = NoPolicy
  /\ git = NoGit
  /\ cache = EmptyCache
  /\ hits = 0
  /\ misses = 0
  /\ lookups = NoLookups
  /\ cc = Idle
  /\ callLog = << >>
  /\ shown = NoStats
  /\ nOps = 0
  /\ project_paths = << >>
  /\ overtaken = FALSE
  /\ unit = << >>
  /\ main = "none"
  /\ mrs = << >>
  /\ printed = NoLines
  /\ rec = << >>
  /\ result = NoResult

NextCache ==
  \/ \E p \in Paths : GetProjectIdCall(p)
  \/ \E o \in LookupOutcomes : GetProjectIdReturn(o)
  \/ \E clear \in BOOLEAN : CacheCommand(clear)

SpecCache == InitCache /\ [][NextCache]_vars

\* ------------------------------------------------- merge-request records
\* source_branch values the remote can return, spelled out so that
\* str.startswith is computed on the characters
BranchChars ==
  [b \in {"issue-renovate-1", "issue-renovate"} |->
     IF b = "issue-renovate-1"
     THEN <<"i","s","s","u","e","-","r","e","n","o","v","a","t","e","-","1">>
     ELSE <<"i","s","s","u","e","-","r","e","n","o","v","a","t","e">>]

Branches == DOMAIN BranchChars

BotPrefix == <<"i","s","s","u","e","-","r","e","n","o","v","a","t","e","-">>

StartsWithShort(s, prefix) ==
  /\ Len(s) >= Len(prefix) - 1
  /\ SubSeq(s, 1, Len(prefix) - 1) = SubSeq(prefix, 1, Len(prefix) - 1)

\* s.startswith(prefix)
StartsWith(s, prefix) ==
  /\ Len(s) >= Len(prefix)
  /\ SubSeq(s, 1, Len(prefix)) = prefix

IsRenovateBranch(b) == StartsWith(BranchChars[b], BotPrefix)

Titles == <<"bump a", "bump b", "bump c">>

\* the JSON body of a 200 answer of the list call of project pid, given the
\* source branches of its open merge requests
ListBody(pid, branches) ==
  [k \in 1..Len(branches) |->
     [iid |-> k, project_id |-> pid, title |-> Titles[k],
      source_branch |-> branches[k]]]

BranchLists == UNION {[1..n -> Branches] : n \in 0..MaxRecords}

\* What the list call can come back with.
ListOutcomes ==
  [kind : {"ok"}, branches : BranchLists]
    \cup {[kind |-> "status", branches |-> << >>],
          [kind |-> "exc", branches |-> << >>]}

RECURSIVE SelectRenovateReversed(_), SelectRenovate(_)

SelectRenovateReversed(body) ==
  IF body = << >> THEN << >>
  ELSE IF IsRenovateBranch(Head(body).source_branch)
       THEN SelectRenovateReversed(Tail(body)) \o <<Head(body)>>
       ELSE SelectRenovateReversed(Tail(body))

\* [mr for mr in response.json() if mr["source_branch"].startswith(...)]
SelectRenovate(body) ==
  IF body = << >> THEN << >>
  ELSE IF IsRenovateBranch(Head(body).source_branch)
       THEN <<Head(body)>> \o SelectRenovate(Tail(body))
       ELSE SelectRenovate(Tail(body))

\* mr["project_path"] = project_path
Tag(mr, path) ==
  [iid |-> mr.iid, project_id |-> mr.project_id, title |-> mr.title,
   source_branch |-> mr.source_branch, project_path |-> path]

TagAll(ms, path) == [k \in 1..Len(ms) |-> Tag(ms[k], path)]

\* ------------------------------------------------------------ SpecFetch
NewUnit(path) ==
  [path |-> path, pc |-> "queued", via |-> "none", pid |-> 0, lstatus |-> 0,
   body |-> << >>, out |-> << >>]

Units == DOMAIN unit

\* work item i completes in this step while a work item that is before it
\* in project_paths has not completed
OvertakesNow(i) ==
  /\ unit'[i].pc \in {"done", "raised"}
  /\ \E j \in Units : j < i /\ unit[j].pc \notin {"done", "raised"}

Running(u) == {i \in DOMAIN u : u[i].pc \in {"lookup", "list"}}

WarnLine(path) == Line("yellow", "Could not find project", 0, path)
FailLine(path) == Line("red", "Failed to get MRs for project", 0, path)

AfterProjectIdSilent(i, project_id, via) ==
  IF Falsy(project_id)
  THEN /\ unit' = [unit EXCEPT ![i].pc = "done", ![i].via = via,
                               ![i].pid = project_id, ![i].out = << >>]
       /\ UNCHANGED printed
  ELSE /\ unit' = [unit EXCEPT ![i].pc = "list", ![i].via = via,
                               ![i].pid = project_id]
       /\ UNCHANGED printed

\* _fetch_project_mrs after get_project_id has answered project_id:
\* either the warning and [], or the list request goes out
AfterProjectId(i, project_id, via) ==
  IF Falsy(project_id)
  THEN /\ unit' = [unit EXCEPT ![i].pc = "done", ![i].via = via,
                               ![i].pid = project_id, ![i].out = << >>]
       /\ printed' = PrintLine(printed, WarnLine(unit[i].path))
  ELSE /\ unit' = [unit EXCEPT ![i].pc = "list", ![i].via = via,
                               ![i].pid = project_id]
       /\ UNCHANGED printed

GetRenovateMrsEnterUnchecked ==
  /\ main = "fetch"
  /\ unit' = [i \in 1..Len(project_paths) |-> NewUnit(project_paths[i])]
  /\ main' = "gather"
  /\ UNCHANGED <<token, cmdVars, cacheVars, cacheCmdVars, project_paths, overtaken, mrs, printed,
                 mutateVars>>

\* get_renovate_mrs up to the dispatch of the work items
GetRenovateMrsEnter ==
  /\ main = "fetch"
  /\ IF token
     THEN /\ unit' = [i \in 1..Len(project_paths) |-> NewUnit(project_paths[i])]
          /\ main' = "gather"
     ELSE /\ main' = "exit"
          /\ UNCHANGED unit
  /\ UNCHANGED <<token, cmdVars, cacheVars, cacheCmdVars, project_paths, overtaken, mrs, printed,
                 mutateVars>>

FetchStartUncapped(i) ==
  /\ main \in {"gather", "raised"}
  /\ unit[i].pc = "queued"
  /\ IF unit[i].path \in DOMAIN cache
     THEN /\ hits' = hits + 1
          /\ AfterProjectId(i, cache[unit[i].path], "hit")
          /\ UNCHANGED <<misses, lookups>>
     ELSE /\ misses' = misses + 1
          /\ IF token
             THEN /\ unit' = [unit EXCEPT ![i].pc = "lookup", ![i].via = "miss"]
                  /\ lookups' = [lookups EXCEPT ![unit[i].path] = @ + 1]
             ELSE /\ unit' = [unit EXCEPT ![i].pc = "raised", ![i].via = "miss"]
                  /\ UNCHANGED lookups
          /\ UNCHANGED <<hits, printed>>
  /\ overtaken' = (overtaken \/ OvertakesNow(i))
  /\ UNCHANGED <<token, cmdVars, cache, cacheCmdVars, project_paths, main, mrs,
                 mutateVars>>

\* a worker thread picks up _fetch_project_mrs(path) and enters get_project_id
FetchStart(i) ==
  /\ main \in {"gather", "raised"}
  /\ unit[i].pc = "queued"
  /\ Cardinality(Running(unit)) < MaxWorkers
  /\ IF unit[i].path \in DOMAIN cache
     THEN /\ hits' = hits + 1
          /\ AfterProjectId(i, cache[unit[i].path], "hit")
          /\ UNCHANGED <<misses, lookups>>
     ELSE /\ misses' = misses + 1
          /\ IF token
             THEN /\ unit' = [unit EXCEPT ![i].pc = "lookup", ![i].via = "miss"]
                  /\ lookups' = [lookups EXCEPT ![unit[i].path] = @ + 1]
             ELSE /\ unit' = [unit EXCEPT ![i].pc = "raised", ![i].via = "miss"]
                  /\ UNCHANGED lookups
          /\ UNCHANGED <<hits, printed>>
  /\ overtaken' = (overtaken \/ OvertakesNow(i))
  /\ UNCHANGED <<token, cmdVars, cache, cacheCmdVars, project_paths, main, mrs,
                 mutateVars>>

FetchLookupReturnFirstKey(i, o) ==
  /\ unit[i].pc = "lookup"
  /\ IF o.kind = "exc"
     THEN /\ unit' = [unit EXCEPT ![i].pc = "raised"]
          /\ UNCHANGED <<cache, printed>>
     ELSE /\ cache' = CacheStore(cache, unit[1].path, o.id)
          /\ AfterProjectId(i, o.id, "miss")
  /\ overtaken' = (overtaken \/ OvertakesNow(i))
  /\ UNCHANGED <<token, cmdVars, hits, misses, lookups, cacheCmdVars, project_paths,
                 main, mrs, mutateVars>>

\* the request of get_project_id comes back in unit i
FetchLookupReturn(i, o) ==
  /\ unit[i].pc = "lookup"
  /\ IF o.kind = "exc"
     THEN /\ unit' = [unit EXCEPT ![i].pc = "raised"]
          /\ UNCHANGED <<cache, printed>>
     ELSE /\ cache' = CacheStore(cache, unit[i].path, o.id)
          /\ AfterProjectId(i, o.id, "miss")
  /\ overtaken' = (overtaken \/ OvertakesNow(i))
  /\ UNCHANGED <<token, cmdVars, hits, misses, lookups, cacheCmdVars, project_paths,
                 main, mrs, mutateVars>>

\* the list request comes back in unit i
FetchListReturn(i, r) ==
  /\ unit[i].pc = "list"
  /\ CASE r.kind = "ok" ->
            LET body == ListBody(unit[i].pid, r.branches)
            IN /\ unit' = [unit EXCEPT
                     ![i].pc = "done", ![i].lstatus = OkStatus,
                     ![i].body = body,
                     ![i].out = TagAll(SelectRenovate(body), unit[i].path)]
               /\ UNCHANGED printed
       [] r.kind = "status" ->
            /\ unit' = [unit EXCEPT ![i].pc = "done", ![i].lstatus = ErrStatus,
                                    ![i].out = << >>]
            /\ printed' = PrintLine(printed, FailLine(unit[i].path))
       [] OTHER ->
            /\ unit' = [unit EXCEPT ![i].pc = "raised"]
            /\ UNCHANGED printed
  /\ overtaken' = (overtaken \/ OvertakesNow(i))
  /\ UNCHANGED <<token, cmdVars, cacheVars, cacheCmdVars, project_paths, main, mrs,
                 mutateVars>>

RECURSIVE FlattenReversed(_), Flatten(_)

FlattenReversed(results) ==
  IF results = << >> THEN << >>
  ELSE FlattenReversed(Tail(results)) \o Head(results)

\* for mrs in results: renovate_mrs.extend(mrs)
Flatten(results) ==
  IF results = << >> THEN << >>
  ELSE Head(results) \o Flatten(Tail(results))

GatherFetchReturnFirst ==
  /\ main = "gather"
  /\ \E i \in Units : unit[i].pc = "done"
  /\ \A i \in Units : unit[i].pc # "raised"
  /\ mrs' = Flatten([i \in 1..Len(unit) |-> unit[i].out])
  /\ main' = "returned"
  /\ UNCHANGED <<token, cmdVars, cacheVars, cacheCmdVars, fetchVars, printed, mutateVars>>

\* asyncio.gather has every result: flatten them in the order of the tasks
GatherFetchReturn ==
  /\ main = "gather"
  /\ \A i \in Units : unit[i].pc = "done"
  /\ mrs' = Flatten([i \in 1..Len(unit) |-> unit[i].out])
  /\ main' = "returned"
  /\ UNCHANGED <<token, cmdVars, cacheVars, cacheCmdVars, fetchVars, printed, mutateVars>>

\* asyncio.gather re-raises the exception of a work item; the other work
\* items are not cancelled and run on while the executor is shut down
GatherFetchRaise ==
  /\ main = "gather"
  /\ \E i \in Units : unit[i].pc = "raised"
  /\ main' = "raised"
  /\ UNCHANGED <<token, cmdVars, cacheVars, cacheCmdVars, fetchVars, mrs, printed,
                 mutateVars>>

PathLists == UNION {[1..n -> Paths] : n \in 0..MaxProjects}

InitFetch ==
  /\ token \in BOOLEAN
  /\ dry_run = TRUE
  /\ answer = "none"
  /\ ended = NotEnded
  /\ pathArgs = NoPathArgs
  /\ policy = NoPolicy
  /\ git = NoGit
  /\ cache = EmptyCache
  /\ hits = 0
  /\ misses = 0
  /\ lookups = NoLookups
  /\ cc = Idle
  /\ callLog = << >>
  /\ shown = NoStats
  /\ nOps = 0
  /\ project_paths \in PathLists
  /\ overtaken = FALSE
  /\ unit = << >>
  /\ main = "fetch"
  /\ mrs = << >>
  /\ printed = NoLines
  /\ rec = << >>
  /\ result = NoResult

NextFetch ==
  \/ GetRenovateMrsEnter
  \/ \E i \in Units : FetchStart(i)
  \/ \E i \in Units : \E o \in DirectoryOutcomes(unit[i].path) :
        FetchLookupReturn(i, o)
  \/ \E i \in Units : \E r \in ListOutcomes : FetchListReturn(i, r)
  \/ GatherFetchReturn
  \/ GatherFetchRaise

SpecFetch == InitFetch /\ [][NextFetch]_vars

\* ----------------------------------------------------------- SpecMutate
MergedStatus == 200
AcceptedStatus == 202
NotAllowedStatus == 405

\* f"HTTP {response.status_code}"
HttpText(status) ==
  CASE status = AcceptedStatus -> "HTTP 202"
    [] status = NotAllowedStatus -> "HTTP 405"
    [] status = ErrStatus -> "HTTP 404"
    [] OTHER -> "HTTP 200"

\* What the approvals query can come back with.
ApprovalsOutcomes ==
  {[kind |-> "status", status |-> ErrStatus, approved |-> FALSE],
   [kind |-> "status", status |-> OkStatus, approved |-> TRUE],
   [kind |-> "status", status |-> OkStatus, approved |-> FALSE],
   [kind |-> "exc", status |-> 0, approved |-> FALSE]}

\* What the approve call can come back with.
ApproveOutcomes ==
  {[kind |-> "status", status |-> ApprovedStatus],
   [kind |-> "status", status |-> ErrStatus],
   [kind |-> "exc", status |-> 0]}

\* What the merge call can come back with; message is the "message" key of
\* the JSON body, "" when the body has none or is not JSON.
MergeOutcomes ==
  {[kind |-> "status", status |-> MergedStatus, message |-> ""],
   [kind |-> "status", status |-> AcceptedStatus, message |-> ""],
   [kind |-> "status", status |-> NotAllowedStatus,
    message |-> "Branch cannot be merged"],
   [kind |-> "exc", status |-> 0, message |-> ""]}

MergeSucceededAny2xx(status) == status >= 200 /\ status < 300

\* response.status_code == 200
MergeSucceeded(status) == status = MergedStatus

\* response.json().get("message", f"HTTP {response.status_code}")
ErrorMsg(o) == IF o.message # "" THEN o.message ELSE HttpText(o.status)

MergedLine(mr) == Line("green", "Merged", mr.project_id, mr.title)
ErrorLine(mr, msg) == Line("red", msg, mr.project_id, mr.title)

NewRec(mr) ==
  [mr |-> mr, pc |-> "pending", cancelled |-> FALSE,
   nq |-> 0, qstatus |-> 0, approved |-> FALSE,
   na |-> 0, astatus |-> 0,
   nm |-> 0, mstatus |-> 0]

Recs == DOMAIN rec

Busy(r) == {k \in DOMAIN r : r[k].pc \in {"approvals", "approve", "merge"}}

ProcessAllMrsEnterSkipFirst ==
  /\ main = "apply"
  /\ rec' = [k \in 1..(Len(mrs) - 1) |-> NewRec(mrs[k + 1])]
  /\ main' = "mgather"
  /\ UNCHANGED <<token, cmdVars, cacheVars, cacheCmdVars, fetchVars, mrs, printed, result>>

\* process_all_mrs: one process_mr task per record, each submitting its
\* approve step to the executor
ProcessAllMrsEnter ==
  /\ main = "apply"
  /\ rec' = [k \in 1..Len(mrs) |-> NewRec(mrs[k])]
  /\ main' = "mgather"
  /\ UNCHANGED <<token, cmdVars, cacheVars, cacheCmdVars, fetchVars, mrs, printed, result>>

\* approve_mr_if_not_yet has returned (its value is dropped): process_mr
\* resumes and submits merge_mr, unless its task was cancelled meanwhile
ApprovalSettled(k, r) ==
  IF rec[k].cancelled
  THEN [r EXCEPT ![k].pc = "cancelled"]
  ELSE [r EXCEPT ![k].pc = "mergeq"]

\* a worker thread picks up approve_mr_if_not_yet and sends the approvals query
MutApproveStart(k) ==
  /\ rec[k].pc = "pending"
  /\ Cardinality(Busy(rec)) < MaxWorkers
  /\ IF token
     THEN rec' = [rec EXCEPT ![k].pc = "approvals", ![k].nq = @ + 1]
     ELSE rec' = [rec EXCEPT ![k].pc = "raised"]
  /\ UNCHANGED <<token, cmdVars, cacheVars, cacheCmdVars, fetchVars, main, mrs, printed,
                 result>>

\* the approvals query comes back
MutApprovalsReturn(k, o) ==
  /\ rec[k].pc = "approvals"
  /\ CASE o.kind = "exc" ->
            rec' = [rec EXCEPT ![k].pc = "raised"]
       [] o.kind = "status" /\ o.status # OkStatus ->
            rec' = ApprovalSettled(k, [rec EXCEPT ![k].qstatus = o.status])
       [] o.kind = "status" /\ o.status = OkStatus /\ o.approved ->
            rec' = ApprovalSettled(k, [rec EXCEPT ![k].qstatus = o.status,
                                                  ![k].approved = TRUE])
       [] OTHER ->
            rec' = [rec EXCEPT ![k].qstatus = o.status, ![k].pc = "approve",
                               ![k].na = @ + 1]
  /\ UNCHANGED <<token, cmdVars, cacheVars, cacheCmdVars, fetchVars, main, mrs, printed,
                 result>>

MutApproveReturnStrict(k, o) ==
  /\ rec[k].pc = "approve"
  /\ IF o.kind = "exc"
     THEN rec' = [rec EXCEPT ![k].pc = "raised"]
     ELSE IF o.status = ApprovedStatus
     THEN rec' = ApprovalSettled(k, [rec EXCEPT ![k].astatus = o.status])
     ELSE rec' = [rec EXCEPT ![k].astatus = o.status, ![k].pc = "failed"]
  /\ UNCHANGED <<token, cmdVars, cacheVars, cacheCmdVars, fetchVars, main, mrs, printed,
                 result>>

\* the approve call comes back
MutApproveReturn(k, o) ==
  /\ rec[k].pc = "approve"
  /\ IF o.kind = "exc"
     THEN rec' = [rec EXCEPT ![k].pc = "raised"]
     ELSE rec' = ApprovalSettled(k, [rec EXCEPT ![k].astatus = o.status])
  /\ UNCHANGED <<token, cmdVars, cacheVars, cacheCmdVars, fetchVars, main, mrs, printed,
                 result>>

MutMergeStartEarly(k) ==
  /\ rec[k].pc \in {"mergeq", "approvals"}
  /\ Cardinality(Busy(rec) \ {k}) < MaxWorkers
  /\ rec' = [rec EXCEPT ![k].pc = "merge", ![k].nm = @ + 1]
  /\ UNCHANGED <<token, cmdVars, cacheVars, cacheCmdVars, fetchVars, main, mrs, printed,
                 result>>

\* a worker thread picks up merge_mr and sends the merge call
MutMergeStart(k) ==
  /\ rec[k].pc = "mergeq"
  /\ Cardinality(Busy(rec)) < MaxWorkers
  /\ IF token
     THEN rec' = [rec EXCEPT ![k].pc = "merge", ![k].nm = @ + 1]
     ELSE rec' = [rec EXCEPT ![k].pc = "raised"]
  /\ UNCHANGED <<token, cmdVars, cacheVars, cacheCmdVars, fetchVars, main, mrs, printed,
                 result>>

\* the merge call comes back: merge_mr prints its line and returns
MutMergeReturn(k, o) ==
  /\ rec[k].pc = "merge"
  /\ IF o.kind = "exc"
     THEN /\ rec' = [rec EXCEPT ![k].pc = "raised"]
          /\ UNCHANGED printed
     ELSE /\ rec' = [rec EXCEPT
                 ![k].mstatus = o.status,
                 ![k].pc = IF rec[k].cancelled THEN "cancelled"
                           ELSE IF MergeSucceeded(o.status) THEN "merged"
                           ELSE "failed"]
          /\ printed' = IF MergeSucceeded(o.status)
                        THEN PrintLine(printed, MergedLine(rec[k].mr))
                        ELSE PrintLine(printed, ErrorLine(rec[k].mr, ErrorMsg(o)))
  /\ UNCHANGED <<token, cmdVars, cacheVars, cacheCmdVars, fetchVars, main, mrs, result>>

\* asyncio.gather has the result of every process_mr task
GatherMutReturn ==
  /\ main = "mgather"
  /\ \A k \in Recs : rec[k].pc \in {"merged", "failed"}
  /\ result' = [set |-> TRUE,
                success_count |-> Cardinality({k \in Recs : rec[k].pc = "merged"}),
                total |-> Len(mrs)]
  /\ main' = "mreturned"
  /\ UNCHANGED <<token, cmdVars, cacheVars, cacheCmdVars, fetchVars, mrs, printed, rec>>

\* asyncio.gather re-raises the exception of a task and process_all_mrs
\* raises; asyncio.run then cancels the tasks still pending: a step waiting
\* for a worker is dropped, a call already in a worker thread runs to its end
GatherMutRaise ==
  /\ main = "mgather"
  /\ \E k \in Recs : rec[k].pc = "raised"
  /\ main' = "mraised"
  /\ rec' = [k \in Recs |->
               IF rec[k].pc \in {"pending", "mergeq"}
               THEN [rec[k] EXCEPT !.pc = "cancelled", !.cancelled = TRUE]
               ELSE IF rec[k].pc \in {"approvals", "approve", "merge"}
               THEN [rec[k] EXCEPT !.cancelled = TRUE]
               ELSE rec[k]]
  /\ UNCHANGED <<token, cmdVars, cacheVars, cacheCmdVars, fetchVars, mrs, printed, result>>

\* records as get_renovate_mrs returns them
MrPool ==
  LET body == ListBody(101, <<"issue-renovate-1", "issue-renovate-1">>)
  IN {Tag(body[k], "org-a/proj-x") : k \in 1..Len(body)}

MrLists == UNION {[1..n -> MrPool] : n \in 0..MaxMrs}

InitMutate ==
  /\ token \in BOOLEAN
  /\ dry_run = TRUE
  /\ answer = "none"
  /\ ended = NotEnded
  /\ pathArgs = NoPathArgs
  /\ policy = NoPolicy
  /\ git = NoGit
  /\ cache = EmptyCache
  /\ hits = 0
  /\ misses = 0
  /\ lookups = NoLookups
  /\ cc = Idle
  /\ callLog = << >>
  /\ shown = NoStats
  /\ nOps = 0
  /\ project_paths = << >>
  /\ overtaken = FALSE
  /\ unit = << >>
  /\ main = "apply"
  /\ mrs \in MrLists
  /\ printed = NoLines
  /\ rec = << >>
  /\ result = NoResult

NextMutate ==
  \/ ProcessAllMrsEnter
  \/ \E k \in Recs : MutApproveStart(k)
  \/ \E k \in Recs : \E o \in ApprovalsOutcomes : MutApprovalsReturn(k, o)
  \/ \E k \in Recs : \E o \in ApproveOutcomes : MutApproveReturn(k, o)
  \/ \E k \in Recs : MutMergeStart(k)
  \/ \E k \in Recs : \E o \in MergeOutcomes : MutMergeReturn(k, o)
  \/ GatherMutReturn
  \/ GatherMutRaise

SpecMutate == InitMutate /\ [][NextMutate]_vars

\* --------------------------------------------------------- SpecRenovate
FoundLine(n) == Line("blue", "Total MRs found", n, "")
NoneFoundLine == Line("yellow", "No open Renovate merge requests found", 0, "")
CancelledLine == Line("yellow", "Operation cancelled", 0, "")
SummaryLine(s, t) ==
  [kind |-> "blue", msg |-> "Merged out of", pid |-> s, n |-> t, what |-> ""]

\* display_mrs(mrs), then `if not mrs: return`
DisplayMrs ==
  /\ main = "returned"
  /\ IF mrs = << >>
     THEN /\ printed' = PrintLine(printed, NoneFoundLine)
          /\ main' = "nothing"
     ELSE /\ printed' = PrintLine(printed, FoundLine(Len(mrs)))
          /\ main' = "confirm"
  /\ UNCHANGED <<token, cmdVars, cacheVars, cacheCmdVars, fetchVars, mrs,
                 mutateVars>>

ConfirmMergeAlways(yes) ==
  /\ main = "confirm"
  /\ answer' = IF yes THEN "yes" ELSE "no"
  /\ main' = "apply"
  /\ UNCHANGED <<token, dry_run, ended, pathArgs, policy, git, cacheVars, cacheCmdVars, fetchVars, mrs,
                 printed, mutateVars>>

\* typer.confirm("Would you like to merge these MRs?") is answered
ConfirmMerge(yes) ==
  /\ main = "confirm"
  /\ answer' = IF yes THEN "yes" ELSE "no"
  /\ IF yes
     THEN /\ main' = "apply"
          /\ UNCHANGED printed
     ELSE /\ printed' = PrintLine(printed, CancelledLine)
          /\ main' = "declined"
  /\ UNCHANGED <<token, dry_run, ended, pathArgs, policy, git, cacheVars, cacheCmdVars, fetchVars, mrs,
                 mutateVars>>

\* print(f"Merged {success_count} out of {total} merge requests")
PrintSummary ==
  /\ main = "mreturned"
  /\ printed' = PrintLine(printed, SummaryLine(result.success_count, result.total))
  /\ main' = "done"
  /\ UNCHANGED <<token, cmdVars, cacheVars, cacheCmdVars, fetchVars, mrs,
                 mutateVars>>

\* every executor work item has come to its end (asyncio.run shuts the
\* default executor down, waiting for its threads, before it returns or raises)
ExecutorDrained ==
  /\ \A i \in Units : unit[i].pc \in {"done", "raised"}
  /\ \A k \in Recs : rec[k].pc \in {"merged", "failed", "raised", "cancelled"}

\* renovate_command ends: it returns, or typer.Exit leaves it (sys.exit with
\* the message, status 1), or an exception leaves it with no handler in the
\* command (traceback of the interpreter, status 1)
CommandEnd ==
  /\ ended = NotEnded
  /\ \/ /\ main \in {"nothing", "declined", "done"}
        /\ ended' = [how |-> "returned", code |-> 0]
     \/ /\ main = "exit"
        /\ ended' = [how |-> "exit", code |-> 1]
     \/ /\ main \in {"raised", "mraised"}
        /\ ExecutorDrained
        /\ ended' = [how |-> "uncaught", code |-> 1]
  /\ UNCHANGED <<token, dry_run, answer, pathArgs, policy, git, cacheVars, cacheCmdVars,
                 fetchVars, main, mrs, printed, mutateVars>>

\* the runs of the whole command that are explored
RenovatePathLists ==
  {<< >>, <<"org-a/proj-x">>, <<"org-a/proj-x", "org-b/proj-y">>}

RenovateListOutcomes ==
  {r \in ListOutcomes :
     r.branches \in {<< >>, <<"issue-renovate-1">>,
                     <<"issue-renovate", "issue-renovate-1">>}}

InitRenovate ==
  /\ token \in BOOLEAN
  /\ dry_run \in BOOLEAN
  /\ answer = "none"
  /\ ended = NotEnded
  /\ pathArgs = NoPathArgs
  /\ policy = NoPolicy
  /\ git = NoGit
  /\ cache = EmptyCache
  /\ hits = 0
  /\ misses = 0
  /\ lookups = NoLookups
  /\ cc = Idle
  /\ callLog = << >>
  /\ shown = NoStats
  /\ nOps = 0
  /\ project_paths \in RenovatePathLists
  /\ overtaken = FALSE
  /\ unit = << >>
  /\ main = "fetch"
  /\ mrs = << >>
  /\ printed = NoLines
  /\ rec = << >>
  /\ result = NoResult

NextRenovate ==
  \/ GetRenovateMrsEnter
  \/ \E i \in Units : FetchStart(i)
  \/ \E i \in Units : \E o \in DirectoryOutcomes(unit[i].path) :
        FetchLookupReturn(i, o)
  \/ \E i \in Units : \E r \in RenovateListOutcomes : FetchListReturn(i, r)
  \/ GatherFetchReturn
  \/ GatherFetchRaise
  \/ DisplayMrs
  \/ \E yes \in BOOLEAN : ConfirmMerge(yes)
  \/ ProcessAllMrsEnter
  \/ \E k \in Recs : MutApproveStart(k)
  \/ \E k \in Recs : \E o \in ApprovalsOutcomes : MutApprovalsReturn(k, o)
  \/ \E k \in Recs : \E o \in ApproveOutcomes : MutApproveReturn(k, o)
  \/ \E k \in Recs : MutMergeStart(k)
  \/ \E k \in Recs : \E o \in MergeOutcomes : MutMergeReturn(k, o)
  \/ GatherMutReturn
  \/ GatherMutRaise
  \/ PrintSummary
  \/ CommandEnd

SpecRenovate == InitRenovate /\ [][NextRenovate]_vars

\* the same runs when every request comes back, the executor hands every
\* queued work item to a free worker, the event loop runs every ready
\* callback and the user answers the prompt
SpecRenovateLive == SpecRenovate /\ WF_vars(NextRenovate)

\* ------------------------------------------------------------- SpecPool
\* one call of get_renovate_mrs with one project more than the executor has
\* worker threads
PoolPaths ==
  [i \in 1..(MaxWorkers + 1) |->
     IF i % 2 = 1 THEN "org-a/proj-x" ELSE "org-b/proj-y"]

InitPool ==
  /\ token = TRUE
  /\ dry_run = TRUE
  /\ answer = "none"
  /\ ended = NotEnded
  /\ pathArgs = NoPathArgs
  /\ policy = NoPolicy
  /\ git = NoGit
  /\ cache = EmptyCache
  /\ hits = 0
  /\ misses = 0
  /\ lookups = NoLookups
  /\ cc = Idle
  /\ callLog = << >>
  /\ shown = NoStats
  /\ nOps = 0
  /\ project_paths = PoolPaths
  /\ overtaken = FALSE
  /\ unit = << >>
  /\ main = "fetch"
  /\ mrs = << >>
  /\ printed = NoLines
  /\ rec = << >>
  /\ result = NoResult

NextPool ==
  \/ GetRenovateMrsEnter
  \/ \E i \in Units : FetchStart(i)
  \/ \E i \in Units : \E o \in DirectoryOutcomes(unit[i].path) :
        FetchLookupReturn(i, o)
  \/ \E i \in Units : \E r \in RenovateListOutcomes : FetchListReturn(i, r)
  \/ GatherFetchReturn
  \/ GatherFetchRaise

SpecPool == InitPool /\ [][NextPool]_vars

\* ------------------------------------------------------------ SpecPaths
\* the --nro and --type values of the command line, the values of
\* variables.yaml, and the two placeholders of project_name_template
Nros == {"be", "fr"}
Types == {"infra", "data"}
DefaultNros == <<"be", "fr">>
DefaultTypes == <<"infra">>
DefaultBasePath == "group"
BasePaths == {"", "root"}
NroField == "{nro}"
TypeField == "{type}"
Templates == {<<NroField, "-", TypeField>>, <<TypeField, "-svc">>}

ArgLists(S) == UNION {[1..n -> S] : n \in 0..MaxArgs}

\* template.format(nro=nro, type=type_): every replacement field is replaced
\* by its keyword argument, literal text is kept
Format(template, nro, type_) ==
  [k \in DOMAIN template |->
     CASE template[k] = NroField -> nro
       [] template[k] = TypeField -> type_
       [] OTHER -> template[k]]

\* f"{base_path}/{nro}/{template.format(nro=nro, type=type_)}"
ProjectPath(base_path, nro, type_, template) ==
  <<base_path, "/", nro, "/">> \o Format(template, nro, type_)

\* nros or default, types or default: None and [] are both falsy
ListOrDefault(x, default) == IF x = << >> THEN default ELSE x

\* base_path or default: None and "" are both falsy
StrOrDefault(x, default) == IF x = "" THEN default ELSE x

RECURSIVE ForTypes(_, _, _, _), ForNrosReversed(_, _, _, _), ForNros(_, _, _, _)

\* for type_ in types
ForTypes(nro, types, base_path, template) ==
  IF types = << >>
    THEN << >>
    ELSE <<ProjectPath(base_path, nro, Head(types), template)>>
           \o ForTypes(nro, Tail(types), base_path, template)

ForNrosReversed(nros, types, base_path, template) ==
  IF nros = << >>
    THEN << >>
    ELSE ForNrosReversed(Tail(nros), types, base_path, template)
           \o ForTypes(Head(nros), types, base_path, template)

\* for nro in nros
ForNros(nros, types, base_path, template) ==
  IF nros = << >>
    THEN << >>
    ELSE ForTypes(Head(nros), types, base_path, template)
           \o ForNros(Tail(nros), types, base_path, template)

get_project_paths(nros, types, base_path, template) ==
  ForNros(ListOrDefault(nros, DefaultNros),
          ListOrDefault(types, DefaultTypes),
          StrOrDefault(base_path, DefaultBasePath), template)

\* renovate_command resolves the project paths of its arguments
GetProjectPaths ==
  /\ main = "resolve"
  /\ project_paths' = get_project_paths(pathArgs.nros, pathArgs.types,
                                        pathArgs.base_path, pathArgs.template)
  /\ main' = "resolved"
  /\ UNCHANGED <<token, cmdVars, cacheVars, cacheCmdVars, unit, overtaken, mrs, printed,
                 mutateVars>>

InitPaths ==
  /\ token = TRUE
  /\ dry_run = TRUE
  /\ answer = "none"
  /\ ended = NotEnded
  /\ pathArgs \in [nros : ArgLists(Nros), types : ArgLists(Types),
                   base_path : BasePaths, template : Templates]
  /\ policy = NoPolicy
  /\ git = NoGit
  /\ cache = EmptyCache
  /\ hits = 0
  /\ misses = 0
  /\ lookups = NoLookups
  /\ cc = Idle
  /\ callLog = << >>
  /\ shown = NoStats
  /\ nOps = 0
  /\ project_paths = << >>
  /\ overtaken = FALSE
  /\ unit = << >>
  /\ main = "resolve"
  /\ mrs = << >>
  /\ printed = NoLines
  /\ rec = << >>
  /\ result = NoResult

NextPaths == GetProjectPaths

SpecPaths == InitPaths /\ [][NextPaths]_vars

\* ----------------------------------------------------------- SpecPolicy
\* gcloud.py: the taxonomies of an NRO's project and the policy tags of a
\* taxonomy, as the two gcloud list commands can report them
TaxonomyNames == <<"restricted">>
TagNames == {"pii"}

\* subprocess.run(..., check=True) followed by json.loads(stdout): the
\* command succeeds with parsable output, exits non-zero
\* (CalledProcessError), or prints what json.loads rejects
TaxonomiesOutcomes ==
  {[kind |-> "ok", names |-> SubSeq(TaxonomyNames, 1, n)] :
      n \in 0..Len(TaxonomyNames)}
    \cup {[kind |-> k, names |-> << >>] : k \in {"failed", "garbled"}}

PolicyTagsOutcomes ==
  {[kind |-> "ok", tags |-> T] : T \in SUBSET TagNames}
    \cup {[kind |-> k, tags |-> {}] : k \in {"failed", "garbled"}}

\* the message of the except clause that caught the failure
ErrorOf(kind) ==
  IF kind = "failed" THEN "Error fetching policy tags" ELSE "Error"

\* dict[key] = value
DictSet(dct, key, value) ==
  [q \in (DOMAIN dct) \cup {key} |-> IF q = key THEN value ELSE dct[q]]

\* one executor work item _fetch_nro_policy_tags(nro, location); error = ""
\* stands for None
NewTask(nro) ==
  [nro |-> nro, pc |-> "queued", todo |-> << >>, nro_policy_tags |-> EmptyDict,
   error |-> "", why |-> "none"]

Tasks == DOMAIN policy.task

TasksRunning ==
  {i \in Tasks : policy.task[i].pc \in {"taxonomies", "policy_tags"}}

\* return (nro, nro_policy_tags, None)
TaskReturned(t) == [t EXCEPT !.pc = "done", !.why = "ok"]

\* return (nro, {}, error) from one of the except clauses
TaskFailed(t, kind) ==
  [t EXCEPT !.pc = "done", !.nro_policy_tags = EmptyDict,
            !.error = ErrorOf(kind), !.why = kind, !.todo = << >>]

\* the loop `for taxonomy in taxonomies` reaches its next element: the key
\* of the taxonomy is created and its policy-tags command is run
NextTaxonomy(t, names) ==
  IF names = << >>
    THEN TaskReturned([t EXCEPT !.todo = << >>])
    ELSE [t EXCEPT !.pc = "policy_tags", !.todo = names,
                   !.nro_policy_tags =
                      IF Head(names) \in DOMAIN @ THEN @
                      ELSE DictSet(@, Head(names), {})]

\* _fetch_all_policy_tags up to the dispatch of the work items
FetchAllPolicyTagsEnter ==
  /\ main = "policy"
  /\ policy' = [policy EXCEPT
                  !.task = [i \in 1..Len(policy.nros) |-> NewTask(policy.nros[i])]]
  /\ main' = "pgather"
  /\ UNCHANGED <<token, dry_run, answer, ended, pathArgs, git, cacheVars,
                 cacheCmdVars, fetchVars, mrs, printed, mutateVars>>

\* a worker thread picks up the work item and runs `taxonomies list`
PolicyStart(i) ==
  /\ policy.task[i].pc = "queued"
  /\ Cardinality(TasksRunning) < MaxWorkers
  /\ policy' = [policy EXCEPT !.task[i].pc = "taxonomies"]
  /\ UNCHANGED <<token, dry_run, answer, ended, pathArgs, git, cacheVars,
                 cacheCmdVars, fetchVars, main, mrs, printed, mutateVars>>

\* `taxonomies list` comes back in work item i
PolicyTaxonomiesReturn(i, o) ==
  /\ policy.task[i].pc = "taxonomies"
  /\ policy' = [policy EXCEPT !.task[i] =
                  IF o.kind = "ok" THEN NextTaxonomy(@, o.names)
                  ELSE TaskFailed(@, o.kind)]
  /\ UNCHANGED <<token, dry_run, answer, ended, pathArgs, git, cacheVars,
                 cacheCmdVars, fetchVars, main, mrs, printed, mutateVars>>

\* `policy-tags list` of the current taxonomy comes back in work item i
PolicyTagsReturn(i, o) ==
  /\ policy.task[i].pc = "policy_tags"
  /\ policy' = [policy EXCEPT !.task[i] =
                  IF o.kind = "ok"
                  THEN NextTaxonomy(
                         [@ EXCEPT !.nro_policy_tags =
                             DictSet(@, Head(policy.task[i].todo), o.tags)],
                         Tail(@.todo))
                  ELSE TaskFailed(@, o.kind)]
  /\ UNCHANGED <<token, dry_run, answer, ended, pathArgs, git, cacheVars,
                 cacheCmdVars, fetchVars, main, mrs, printed, mutateVars>>

PolicyErrorLine(t) == Line("red", t.error, 0, t.nro)
PolicyFetchedLine(t) == Line("green", "Fetched policy tags for", 0, t.nro)

RECURSIVE CollectUntilError(_, _), Collect(_, _), PrintResults(_, _)

CollectUntilError(results, all) ==
  IF results = << >> \/ Head(results).error # ""
    THEN all
    ELSE CollectUntilError(Tail(results),
            DictSet(all, Head(results).nro, Head(results).nro_policy_tags))

\* for nro, tags, error in results: all_policy_tags[nro] = tags unless error
Collect(results, all) ==
  IF results = << >>
    THEN all
    ELSE Collect(Tail(results),
            IF Head(results).error # ""
              THEN all
              ELSE DictSet(all, Head(results).nro, Head(results).nro_policy_tags))

\* for nro, tags, error in results: the line printed for each
PrintResults(results, b) ==
  IF results = << >>
    THEN b
    ELSE PrintResults(Tail(results),
            PrintLine(b, IF Head(results).error # ""
                           THEN PolicyErrorLine(Head(results))
                           ELSE PolicyFetchedLine(Head(results))))

\* asyncio.gather has every result; the loop over the results runs and
\* _fetch_all_policy_tags returns
GatherPolicyReturn ==
  /\ main = "pgather"
  /\ \A i \in Tasks : policy.task[i].pc = "done"
  /\ policy' = [policy EXCEPT !.all_policy_tags = Collect(policy.task, EmptyDict)]
  /\ printed' = PrintResults(policy.task, printed)
  /\ main' = "preturned"
  /\ UNCHANGED <<token, dry_run, answer, ended, pathArgs, git, cacheVars,
                 cacheCmdVars, fetchVars, mrs, mutateVars>>

InitPolicy ==
  /\ token = TRUE
  /\ dry_run = TRUE
  /\ answer = "none"
  /\ ended = NotEnded
  /\ pathArgs = NoPathArgs
  /\ policy \in [nros : ArgLists(Nros), task : {<< >>},
                 all_policy_tags : {EmptyDict}]
  /\ git = NoGit
  /\ cache = EmptyCache
  /\ hits = 0
  /\ misses = 0
  /\ lookups = NoLookups
  /\ cc = Idle
  /\ callLog = << >>
  /\ shown = NoStats
  /\ nOps = 0
  /\ project_paths = << >>
  /\ overtaken = FALSE
  /\ unit = << >>
  /\ main = "policy"
  /\ mrs = << >>
  /\ printed = NoLines
  /\ rec = << >>
  /\ result = NoResult

NextPolicy ==
  \/ FetchAllPolicyTagsEnter
  \/ \E i \in Tasks : PolicyStart(i)
  \/ \E i \in Tasks : \E o \in TaxonomiesOutcomes : PolicyTaxonomiesReturn(i, o)
  \/ \E i \in Tasks : \E o \in PolicyTagsOutcomes : PolicyTagsReturn(i, o)
  \/ GatherPolicyReturn

SpecPolicy == InitPolicy /\ [][NextPolicy]_vars

\* -------------------------------------------------------------- SpecGit
\* git.py: commit messages, as the pieces that COMMIT_PATTERNS looks at:
\* type, optional scope, ": ", text
FeatMessage == <<"feat", ": ", "add x">>
PlainMessage == <<"wip">>
RootMessage == <<"chore", ": ", "start">>
InitialCommit == <<"chore", "(all)", ": ", "initial commit">>
FixPrefix == <<"fix", ": ">>
CommitTypes == {"feat", "fix", "chore"}
Scopes == {"(all)"}

\* re.match(r"^(feat|fix|chore)(\(.*?\))?:\s", message)
is_conventional_commit(message) ==
  /\ Len(message) >= 2
  /\ message[1] \in CommitTypes
  /\ \/ message[2] = ": "
     \/ Len(message) >= 3 /\ message[2] \in Scopes /\ message[3] = ": "

\* the repository: the current branch, the commits of HEAD (oldest first),
\* how many of them the base branch has too, whether the index differs from
\* HEAD, and the commit objects no branch refers to
Repos ==
  {[branch |-> b, log |-> l, fork |-> f, staged |-> FALSE, loose |-> 0] :
     b \in {"main", "feature"},
     l \in {<<RootMessage>>, <<RootMessage, PlainMessage>>,
            <<RootMessage, FeatMessage, PlainMessage>>},
     f \in 1..3}

\* get_branch_commits(base_branch): git log base_branch..HEAD
BranchCommits(repo) == SubSeq(repo.log, repo.fork + 1, Len(repo.log))

GitCommands == {"reset_history", "squash"}
MessageOptions == {<< >>, FeatMessage, PlainMessage}

\* run_git(command) has been called
Ran(g, command) == [g EXCEPT !.ran = Append(@, command)]

\* typer.confirm(prompt) has returned yes
Asked(g, prompt, yes) ==
  [g EXCEPT !.asked = Append(@, [prompt |-> prompt, yes |-> yes])]

Answered(prompt, yes) ==
  \E j \in DOMAIN git.asked : git.asked[j] = [prompt |-> prompt, yes |-> yes]

GitLine(kind, msg) == Line(kind, msg, 0, "")

\* git_command_handler: the function returned
GitReturn(g) ==
  /\ git' = [g EXCEPT !.pc = "end"]
  /\ ended' = [how |-> "returned", code |-> 0]

\* git_command_handler: CalledProcessError of run_git is printed and turned
\* into typer.Exit(1)
GitCommandFailed(g) ==
  /\ git' = [g EXCEPT !.pc = "end"]
  /\ printed' = PrintLine(printed, GitLine("red", "Git command failed"))
  /\ ended' = [how |-> "exit", code |-> 1]

GitUnchanged ==
  UNCHANGED <<token, dry_run, answer, pathArgs, policy, cacheVars, cacheCmdVars,
              fetchVars, main, mrs, mutateVars>>

\* reset_history: the warning and the first prompt
ResetHistoryFirstPrompt(yes) ==
  /\ git.cmd = "reset_history"
  /\ git.pc = "start"
  /\ git' = [Asked(git, "sure", yes) EXCEPT !.pc = "last_chance"]
  /\ printed' = PrintLine(printed, GitLine("red", "WARNING"))
  /\ UNCHANGED ended
  /\ GitUnchanged

ResetHistorySecondPromptAny(yes) ==
  /\ git.cmd = "reset_history"
  /\ git.pc = "last_chance"
  /\ IF Answered("sure", TRUE) \/ yes
     THEN /\ git' = [Asked(git, "last_chance", yes) EXCEPT !.pc = "commit_tree"]
          /\ UNCHANGED <<printed, ended>>
     ELSE /\ GitReturn(Asked(git, "last_chance", yes))
          /\ printed' = PrintLine(printed, GitLine("yellow", "Operation cancelled"))
  /\ GitUnchanged

\* reset_history: the second prompt, asked whatever the first answer was
\* (both calls are elements of the list given to all), then the test
ResetHistorySecondPrompt(yes) ==
  /\ git.cmd = "reset_history"
  /\ git.pc = "last_chance"
  /\ IF Answered("sure", TRUE) /\ yes
     THEN /\ git' = [Asked(git, "last_chance", yes) EXCEPT !.pc = "commit_tree"]
          /\ UNCHANGED <<printed, ended>>
     ELSE /\ GitReturn(Asked(git, "last_chance", yes))
          /\ printed' = PrintLine(printed, GitLine("yellow", "Operation cancelled"))
  /\ GitUnchanged

\* reset_history: git commit-tree HEAD^{tree} -m "chore(all): initial commit"
ResetHistoryCommitTree(ok) ==
  /\ git.cmd = "reset_history"
  /\ git.pc = "commit_tree"
  /\ IF ok
     THEN /\ git' = [Ran(git, "commit-tree") EXCEPT
                       !.pc = "reset", !.repo.loose = @ + 1]
          /\ UNCHANGED <<printed, ended>>
     ELSE GitCommandFailed(Ran(git, "commit-tree"))
  /\ GitUnchanged

\* reset_history: git reset new_hash
ResetHistoryReset(ok) ==
  /\ git.cmd = "reset_history"
  /\ git.pc = "reset"
  /\ IF ok
     THEN /\ GitReturn([Ran(git, "reset") EXCEPT
                          !.repo.log = <<InitialCommit>>,
                          !.repo.fork = 0,
                          !.repo.loose = @ - 1])
          /\ printed' = PrintLine(printed,
                           GitLine("green", "Successfully reset git history"))
     ELSE GitCommandFailed(Ran(git, "reset"))
  /\ GitUnchanged

\* squash: git rev-parse --abbrev-ref HEAD and the test of the branch; the
\* typer.Exit(1) raised on the base branch passes through the handler's
\* `except Exception`, which prints it and raises typer.Exit(1) again
SquashRevParse(ok) ==
  /\ git.cmd = "squash"
  /\ git.pc = "start"
  /\ IF ~ok
     THEN GitCommandFailed(Ran(git, "rev-parse"))
     ELSE IF git.repo.branch = git.base_branch
     THEN /\ git' = [Ran(git, "rev-parse") EXCEPT !.pc = "end"]
          /\ printed' = PrintLine(PrintLine(printed,
                                     GitLine("red", "Cannot squash when on")),
                                  GitLine("red", "Operation failed"))
          /\ ended' = [how |-> "exit", code |-> 1]
     ELSE /\ git' = [Ran(git, "rev-parse") EXCEPT !.pc = "log"]
          /\ UNCHANGED <<printed, ended>>
  /\ GitUnchanged

\* squash, once the message is known: the format test
AfterMessage(g) ==
  [g EXCEPT !.pc = IF is_conventional_commit(g.message)
                   THEN "merge_base" ELSE "prefix"]

\* squash: get_branch_commits(base_branch) and `if not commits`
SquashLog(ok) ==
  /\ git.cmd = "squash"
  /\ git.pc = "log"
  /\ IF ~ok
     THEN GitCommandFailed(Ran(git, "log"))
     ELSE IF BranchCommits(git.repo) = << >>
     THEN /\ GitReturn(Ran(git, "log"))
          /\ printed' = PrintLine(printed, GitLine("yellow", "No commits to squash"))
     ELSE /\ git' = IF git.message = << >>
                    THEN [Ran(git, "log") EXCEPT !.pc = "prompt"]
                    ELSE AfterMessage(Ran(git, "log"))
          /\ UNCHANGED <<printed, ended>>
  /\ GitUnchanged

\* squash: typer.prompt with the last commit message as default
SquashPrompt(typed) ==
  /\ git.cmd = "squash"
  /\ git.pc = "prompt"
  /\ LET commits == BranchCommits(git.repo)
         entered == IF typed = << >> THEN commits[Len(commits)] ELSE typed
     IN git' = AfterMessage([git EXCEPT !.message = entered])
  /\ UNCHANGED <<printed, ended>>
  /\ GitUnchanged

\* squash: the offer to add the 'fix:' prefix
SquashPrefix(yes) ==
  /\ git.cmd = "squash"
  /\ git.pc = "prefix"
  /\ git' = [Asked(git, "prefix", yes) EXCEPT
               !.pc = "merge_base",
               !.message = IF yes THEN FixPrefix \o @ ELSE @]
  /\ UNCHANGED <<printed, ended>>
  /\ GitUnchanged

\* squash: git merge-base base_branch HEAD
SquashMergeBase(ok) ==
  /\ git.cmd = "squash"
  /\ git.pc = "merge_base"
  /\ IF ok
     THEN /\ git' = [Ran(git, "merge-base") EXCEPT !.pc = "confirm"]
          /\ UNCHANGED <<printed, ended>>
     ELSE GitCommandFailed(Ran(git, "merge-base"))
  /\ GitUnchanged

SquashConfirmAlways(yes) ==
  /\ git.cmd = "squash"
  /\ git.pc = "confirm"
  /\ git' = [Asked(git, "squash", yes) EXCEPT !.pc = "soft_reset"]
  /\ UNCHANGED <<printed, ended>>
  /\ GitUnchanged

\* squash: the final confirmation
SquashConfirm(yes) ==
  /\ git.cmd = "squash"
  /\ git.pc = "confirm"
  /\ IF yes
     THEN /\ git' = [Asked(git, "squash", yes) EXCEPT !.pc = "soft_reset"]
          /\ UNCHANGED <<printed, ended>>
     ELSE /\ GitReturn(Asked(git, "squash", yes))
          /\ printed' = PrintLine(printed, GitLine("yellow", "Operation cancelled"))
  /\ GitUnchanged

\* squash: git reset --soft merge_base
SquashSoftReset(ok) ==
  /\ git.cmd = "squash"
  /\ git.pc = "soft_reset"
  /\ IF ok
     THEN /\ git' = [Ran(git, "reset --soft") EXCEPT
                       !.pc = "commit",
                       !.repo.log = SubSeq(@, 1, git.repo.fork),
                       !.repo.staged = TRUE]
          /\ UNCHANGED <<printed, ended>>
     ELSE GitCommandFailed(Ran(git, "reset --soft"))
  /\ GitUnchanged

\* squash: git commit -m message
SquashCommit(ok) ==
  /\ git.cmd = "squash"
  /\ git.pc = "commit"
  /\ IF ok
     THEN /\ GitReturn([Ran(git, "commit") EXCEPT
                          !.repo.log = Append(@, git.message),
                          !.repo.staged = FALSE])
          /\ printed' = PrintLine(printed,
                           GitLine("green", "Successfully squashed"))
     ELSE GitCommandFailed(Ran(git, "commit"))
  /\ GitUnchanged

InitGit ==
  /\ token = TRUE
  /\ dry_run = TRUE
  /\ answer = "none"
  /\ ended = NotEnded
  /\ pathArgs = NoPathArgs
  /\ policy = NoPolicy
  /\ \E c \in GitCommands : \E r \in Repos : \E m \in MessageOptions :
        /\ r.fork <= Len(r.log)
        /\ r.branch = "main" => r.fork = Len(r.log)
        /\ c = "reset_history" => m = << >>
        /\ git = [cmd |-> c, pc |-> "start", asked |-> << >>, ran |-> << >>,
                  repo |-> r, repo0 |-> r, message |-> m, base_branch |-> "main"]
  /\ cache = EmptyCache
  /\ hits = 0
  /\ misses = 0
  /\ lookups = NoLookups
  /\ cc = Idle
  /\ callLog = << >>
  /\ shown = NoStats
  /\ nOps = 0
  /\ project_paths = << >>
  /\ overtaken = FALSE
  /\ unit = << >>
  /\ main = "git"
  /\ mrs = << >>
  /\ printed = NoLines
  /\ rec = << >>
  /\ result = NoResult

NextGit ==
  \/ \E yes \in BOOLEAN : ResetHistoryFirstPrompt(yes)
  \/ \E yes \in BOOLEAN : ResetHistorySecondPrompt(yes)
  \/ \E ok \in BOOLEAN : ResetHistoryCommitTree(ok)
  \/ \E ok \in BOOLEAN : ResetHistoryReset(ok)
  \/ \E ok \in BOOLEAN : SquashRevParse(ok)
  \/ \E ok \in BOOLEAN : SquashLog(ok)
  \/ \E typed \in MessageOptions : SquashPrompt(typed)
  \/ \E yes \in BOOLEAN : SquashPrefix(yes)
  \/ \E ok \in BOOLEAN : SquashMergeBase(ok)
  \/ \E yes \in BOOLEAN : SquashConfirm(yes)
  \/ \E ok \in BOOLEAN : SquashSoftReset(ok)
  \/ \E ok \in BOOLEAN : SquashCommit(ok)

SpecGit == InitGit /\ [][NextGit]_vars

\* ------------------------------------------------ claims on SpecCache
TwoCallsSamePath ==
  /\ cc.pc = "idle"
  /\ nOps = 2
  /\ Len(callLog) = 2
  /\ callLog[1].path = callLog[2].path

\* C4: after a lookup that answered non-200 nothing is stored, so a second
\* call for the same identifier looks up again and the statistics are
\* misses = 2, hits = 0, size = 0.
C4_NoNegativeCaching ==
  (TwoCallsSamePath /\ callLog[1].kind = "status")
     => /\ callLog[2].net
        /\ misses = 2
        /\ hits = 0
        /\ CurrSize = 0

\* What lru_cache does instead: the None returned for a non-200 answer is
\* stored, the second call is a hit that returns None without a request
\* (hits = 1, misses = 1, size = 1); only a lookup that raised stores
\* nothing, and then the second call issues a second request.
NegativeResultCached ==
  /\ (TwoCallsSamePath /\ callLog[1].kind = "status")
        => /\ callLog[2].kind = "hit"
           /\ callLog[2].value = NoneVal
           /\ ~callLog[2].net
           /\ lookups[callLog[1].path] = 1
           /\ hits = 1 /\ misses = 1 /\ CurrSize = 1
  /\ (TwoCallsSamePath /\ callLog[1].kind = "exc")
        => /\ callLog[2].net
           /\ lookups[callLog[1].path] = 2
           /\ hits = 0 /\ misses = 2
           /\ CurrSize = (IF callLog[2].kind = "exc" THEN 0 ELSE 1)

\* C5: once a lookup for an identifier succeeded, every later call for it
\* (until the cache is cleared) returns that id from the cache without a
\* request; after exactly two calls hits = 1 and misses = 1.
C5_HitAfterSuccess ==
  /\ \A i \in 1..Len(callLog) : \A j \in 1..Len(callLog) :
        (i < j /\ callLog[i].path = callLog[j].path /\ callLog[i].kind = "ok")
           => /\ callLog[j].kind = "hit"
              /\ callLog[j].value = callLog[i].value
              /\ ~callLog[j].net
  /\ (TwoCallsSamePath /\ callLog[1].kind = "ok")
        => /\ hits = 1 /\ misses = 1
           /\ lookups[callLog[1].path] = 1

C5_Witness ==
  /\ TwoCallsSamePath
  /\ callLog[1].kind = "ok"
  /\ callLog[2].kind = "hit"
  /\ hits = 1 /\ misses = 1

\* ------------------------------------------------ claims on SpecFetch
\* the branches of this model that begin with "issue-renovate-"
RenovateBranches == {"issue-renovate-1"}

NotFound(i) == unit[i].pc = "done" /\ Falsy(unit[i].pid)
ListFailed(i) ==
  unit[i].pc = "done" /\ ~Falsy(unit[i].pid) /\ unit[i].lstatus # OkStatus
Fetched(i) ==
  unit[i].pc = "done" /\ ~Falsy(unit[i].pid) /\ unit[i].lstatus = OkStatus

\* positions of the list answer of unit i that hold a Renovate merge request
MatchingAt(i) ==
  {k \in 1..Len(unit[i].body) :
      unit[i].body[k].source_branch \in RenovateBranches}

RECURSIVE SumMatching(_)
SumMatching(is) ==
  IF is = {} THEN 0
  ELSE LET i == CHOOSE x \in is : TRUE
       IN Cardinality(MatchingAt(i)) + SumMatching(is \ {i})

\* C1: a project whose id is not found, or whose list call answers non-200,
\* contributes no record and exactly one printed warning; such a project
\* never makes the fetch raise, and the fetch returns as many records as the
\* other projects have matching merge requests.
C1_PartialFailure ==
  /\ \A i \in Units : (NotFound(i) \/ ListFailed(i)) => unit[i].out = << >>
  /\ \A p \in Paths :
        /\ Copies(printed, WarnLine(p))
             = Cardinality({i \in Units : unit[i].path = p /\ NotFound(i)})
        /\ Copies(printed, FailLine(p))
             = Cardinality({i \in Units : unit[i].path = p /\ ListFailed(i)})
  /\ main = "raised" => \E i \in Units : unit[i].pc = "raised"
  /\ main = "returned" =>
        /\ Len(mrs) = SumMatching({i \in Units : Fetched(i)})
        /\ \A k \in 1..Len(mrs) : \E i \in Units :
              Fetched(i) /\ mrs[k].project_path = unit[i].path

C1_Witness ==
  /\ main = "returned"
  /\ \E i \in Units : NotFound(i)
  /\ \E i \in Units : ListFailed(i) \/ (Fetched(i) /\ Len(unit[i].out) > 0)
  /\ \E i \in Units : Fetched(i) /\ MatchingAt(i) # {}

\* C2: a network error in one project's lookup or list call does not make
\* get_renovate_mrs raise.
C2_NetworkErrorIsolated ==
  \A i \in Units : (token /\ unit[i].pc = "raised") => main # "raised"

\* C7: the records returned are exactly the merge requests, listed for the
\* projects whose id resolved, whose source branch starts with
\* "issue-renovate-"; each carries the path of the project it came from.
C7_ExactlyRenovateRecords ==
  main = "returned" =>
    /\ \A k \in 1..Len(mrs) :
          /\ mrs[k].source_branch \in RenovateBranches
          /\ \E i \in Units : \E j \in MatchingAt(i) :
                /\ Fetched(i)
                /\ mrs[k].project_path = unit[i].path
                /\ mrs[k].project_id = unit[i].pid
                /\ mrs[k].iid = unit[i].body[j].iid
                /\ mrs[k].title = unit[i].body[j].title
                /\ mrs[k].source_branch = unit[i].body[j].source_branch
    /\ \A i \in Units : Fetched(i) =>
          \A j \in MatchingAt(i) :
             Cardinality({k \in 1..Len(mrs) :
                            /\ mrs[k].project_path = unit[i].path
                            /\ mrs[k].project_id = unit[i].pid
                            /\ mrs[k].iid = unit[i].body[j].iid})
               = Cardinality({i2 \in Units :
                            /\ Fetched(i2)
                            /\ unit[i2].path = unit[i].path
                            /\ unit[i2].pid = unit[i].pid
                            /\ j \in MatchingAt(i2)})
    /\ Len(mrs) = SumMatching({i \in Units : Fetched(i)})

C7_Witness ==
  /\ main = "returned"
  /\ Len(mrs) > 0
  /\ \E i \in Units :
        /\ Fetched(i)
        /\ MatchingAt(i) # {}
        /\ MatchingAt(i) # 1..Len(unit[i].body)

\* ----------------------------------------------- claims on SpecMutate
\* no record has a step waiting or running, and the caller is past gather
MutationOver ==
  /\ main \in {"mreturned", "mraised"}
  /\ \A k \in Recs : rec[k].pc \in {"merged", "failed", "raised", "cancelled"}

\* C3: process_all_mrs never raises because one record's approve or merge
\* call failed, by status or by network failure.
C3_NeverRaisesForRecord ==
  token => main # "mraised"

RECURSIVE BagSum(_, _)
BagSum(b, ls) ==
  IF ls = {} THEN 0
  ELSE LET l == CHOOSE x \in ls : TRUE
       IN b[l] + BagSum(b, ls \ {l})

\* failure lines printed for a record with this project id and title
FailureLines(pid, title) ==
  BagSum(printed, {l \in DOMAIN printed :
                     l.kind = "red" /\ l.pid = pid /\ l.what = title})

\* C6: process_all_mrs returns (s, t) with t the number of records given and
\* s the number of records whose merge call answered 200; a record is a
\* success iff its merge call answered 200, and one failure line naming the
\* title is printed per record whose merge call answered otherwise.
C6_CountsAndFailureLines ==
  /\ result.set <=> main = "mreturned"
  /\ main = "mraised" => \E k \in Recs : rec[k].pc = "raised"
  /\ main = "mreturned" =>
        /\ result.total = Len(mrs)
        /\ result.success_count
             = Cardinality({k \in Recs : rec[k].mstatus = 200})
  /\ \A k \in Recs :
        /\ rec[k].pc = "merged" => rec[k].mstatus = 200
        /\ rec[k].pc = "failed" => rec[k].mstatus \notin {0, 200}
  /\ \A k \in Recs :
        FailureLines(rec[k].mr.project_id, rec[k].mr.title)
          = Cardinality({j \in Recs :
                           /\ rec[j].mr.project_id = rec[k].mr.project_id
                           /\ rec[j].mr.title = rec[k].mr.title
                           /\ rec[j].mstatus \notin {0, 200}})

C6_Witness ==
  /\ main = "mreturned"
  /\ result.total = 2
  /\ result.success_count = 1
  /\ \E k \in Recs : rec[k].pc = "failed" /\ rec[k].mstatus = 202

\* C8: every record gets its merge call, whatever became of its approval
\* step.
C8_MergeAlwaysAttempted ==
  (token /\ MutationOver) => \A k \in Recs : rec[k].nm = 1

\* the state of a record in the per-record state machine
Phase(r) ==
  CASE r.pc = "merged" -> "Merged"
    [] r.pc = "failed" -> "Failed"
    [] r.nm > 0 -> "MergeAttempted"
    [] r.nq > 0 -> "ApprovalAttempted"
    [] OTHER -> "PendingApproval"

PhaseSucc(ph) ==
  CASE ph = "PendingApproval" -> {"PendingApproval", "ApprovalAttempted"}
    [] ph = "ApprovalAttempted" -> {"ApprovalAttempted", "MergeAttempted"}
    [] ph = "MergeAttempted" -> {"MergeAttempted", "Merged", "Failed"}
    [] OTHER -> {ph}

\* C9: a record only moves PendingApproval -> ApprovalAttempted ->
\* MergeAttempted -> Merged or Failed; its merge call goes out only once its
\* approval step is over; no call is issued twice; Merged and Failed are
\* final, whatever the other records do in between.
C9_RecordStateMachine ==
  [][\A k \in Recs :
        k \in DOMAIN rec' =>
          /\ Phase(rec'[k]) \in PhaseSucc(Phase(rec[k]))
          /\ rec'[k].nq <= 1 /\ rec'[k].na <= 1 /\ rec'[k].nm <= 1
          /\ (rec'[k].nm > rec[k].nm) =>
                /\ rec[k].nq = 1 /\ rec[k].qstatus # 0
                /\ (rec[k].na = 1 => rec[k].astatus # 0)
          /\ (rec[k].pc \in {"merged", "failed"}) => rec'[k] = rec[k]]_vars

C9_Witness ==
  /\ \E k \in Recs : Phase(rec[k]) = "Failed"
  /\ \E k \in Recs : Phase(rec[k]) = "MergeAttempted" /\ rec[k].pc = "merge"

\* --------------------------------------------- claims on SpecRenovate
FetchCallsInFlight == {i \in Units : unit[i].pc \in {"lookup", "list"}}
MutationCallsIssued == {k \in Recs : rec[k].nq + rec[k].na + rec[k].nm > 0}

\* C10: no approve or merge call goes out before the prompt was answered
\* yes; no remote call is in flight while the prompt is pending; nothing is
\* ever approved or merged when the user declined or nothing was fetched.
C10_ConfirmationGate ==
  /\ (MutationCallsIssued # {} \/ rec # << >>) => answer = "yes"
  /\ main = "confirm" =>
        /\ answer = "none"
        /\ FetchCallsInFlight = {}
        /\ Busy(rec) = {}
        /\ Len(mrs) > 0
  /\ main \in {"declined", "nothing"} =>
        /\ MutationCallsIssued = {}
        /\ Busy(rec) = {}
  /\ answer = "yes" => Len(mrs) > 0

C10_Witness ==
  /\ answer = "yes"
  /\ \E k \in Recs : rec[k].pc = "merge"
  /\ \E i \in Units : NotFound(i)

AllUnitsFinished == \A i \in Units : unit[i].pc = "done"
SummaryPrinted == \E l \in DOMAIN printed : l.msg = "Merged out of"

\* C11: the confirmation prompt appears only after every per-project fetch
\* unit has completed, and the summary is printed only after the approve and
\* merge calls of every record have completed.
C11_TwoBarriers ==
  /\ (main = "confirm" \/ answer # "none") =>
        /\ AllUnitsFinished
        /\ Len(unit) = Len(project_paths)
        /\ FetchCallsInFlight = {}
  /\ SummaryPrinted =>
        /\ main = "done"
        /\ Len(rec) = Len(mrs)
        /\ \A k \in Recs : /\ rec[k].pc \in {"merged", "failed"}
                           /\ rec[k].nq = 1
                           /\ rec[k].nm = 1
                           /\ rec[k].mstatus # 0
        /\ Busy(rec) = {}

C11_Witness ==
  /\ SummaryPrinted
  /\ Len(unit) = 2
  /\ Len(rec) = 2
  /\ answer = "yes"

\* C12: in dry-run mode (the default) no approve and no merge call is issued
\* in the run, whatever is answered to the prompt.
C12_DryRunIssuesNothing ==
  dry_run => (MutationCallsIssued = {} /\ rec = << >>)

\* C13: without a token the command aborts before any work is dispatched: no
\* request of any kind is issued and the command ends aborted, with no result.
C13_NoTokenNoRequest ==
  ~token =>
     /\ unit = << >>
     /\ rec = << >>
     /\ lookups = NoLookups
     /\ hits = 0 /\ misses = 0
     /\ main \in {"fetch", "exit"}
     /\ mrs = << >> /\ ~result.set
     /\ ended.how \in {"running", "exit"}
     /\ ended.how = "exit" => ended.code = 1

C13_Witness ==
  /\ ~token
  /\ Len(project_paths) = 2
  /\ main = "exit"
  /\ ended = [how |-> "exit", code |-> 1]

\* the approval step of record k came back with a failure status
ApproveFailed(k) ==
  \/ rec[k].qstatus \notin {0, OkStatus}
  \/ rec[k].na = 1 /\ rec[k].astatus \notin {0, ApprovedStatus}

\* C14: a record whose approve step fails (approvals query not 200, or
\* approve call not 201) is logged with a reason and counted as a failure:
\* it is not among the successes.
C14_ApproveFailureCounted ==
  \A k \in Recs :
     (ApproveFailed(k) /\ rec[k].pc \in {"merged", "failed"}) =>
        /\ rec[k].pc = "failed"
        /\ FailureLines(rec[k].mr.project_id, rec[k].mr.title) >= 1

\* C14 (amended): a failure status of the approve step prints nothing and
\* counts for nothing: the merge call of the record is still issued, the
\* record is a success iff that merge call answers 200, every printed line
\* comes from a merge call, and the failure never makes process_all_mrs raise.
C14_ApproveFailureIgnored ==
  /\ \A k \in Recs :
        (ApproveFailed(k) /\ rec[k].pc \in {"merged", "failed"}) =>
           /\ rec[k].nm = 1
           /\ rec[k].mstatus # 0
           /\ rec[k].pc = "merged" <=> rec[k].mstatus = 200
  /\ BagSum(printed, DOMAIN printed)
       = Cardinality({k \in Recs : rec[k].mstatus # 0})
  /\ main = "mreturned" =>
        result.success_count = Cardinality({k \in Recs : rec[k].mstatus = 200})
  /\ main = "mraised" => \E k \in Recs : rec[k].pc = "raised"

C14_Witness ==
  /\ main = "mreturned"
  /\ result.success_count = 2
  /\ \E k \in Recs : rec[k].qstatus = ErrStatus /\ rec[k].pc = "merged"
  /\ \E k \in Recs : rec[k].astatus = ErrStatus /\ rec[k].pc = "merged"

\* C16: an exception raised during renovate_command (a network error in a
\* worker unit or in a record's task) is caught at the command boundary and
\* printed, and the command ends with exit code 1.
C16_ExceptionCaughtAtBoundary ==
  (main \in {"raised", "mraised"} /\ ended # NotEnded) =>
     ended = [how |-> "caught", code |-> 1]

\* C18: clearing the project-id cache discards every entry and resets the
\* counters: right after a clear hits, misses and size are 0 (in the cache and
\* in the statistics printed by the clearing command), only calls made since
\* the clear are counted, every entry of the cache was stored by a request
\* made since the clear, and so the first call for a previously cached
\* identifier is a miss that issues a request again.
C18_ClearDiscardsAndResets ==
  /\ shown.cleared => (shown.hits = 0 /\ shown.misses = 0 /\ shown.size = 0)
  /\ (callLog = << >> /\ cc.pc = "idle") =>
        (hits = 0 /\ misses = 0 /\ CurrSize = 0)
  /\ hits = Cardinality({j \in DOMAIN callLog : callLog[j].kind = "hit"})
  /\ misses = Cardinality({j \in DOMAIN callLog : callLog[j].kind # "hit"})
                + (IF cc.pc = "lookup" THEN 1 ELSE 0)
  /\ \A p \in DOMAIN cache :
        \E j \in DOMAIN callLog :
           /\ callLog[j].path = p
           /\ callLog[j].net
           /\ callLog[j].value = cache[p]
  /\ \A j \in DOMAIN callLog :
        callLog[j].kind = "hit" =>
           \E i \in 1..(j - 1) : callLog[i].path = callLog[j].path /\ callLog[i].net

\* a cached identifier is looked up a second time after a clear
C18_Witness ==
  /\ shown.cleared
  /\ Len(callLog) = 1
  /\ callLog[1].kind = "ok"
  /\ callLog[1].net
  /\ lookups[callLog[1].path] = 2
  /\ hits = 0
  /\ misses = 1

\* the units that sent a request for the id of path p, and the values these
\* requests have returned so far
LookedUp(p) == {j \in Units : unit[j].path = p /\ unit[j].via = "miss"}
Returned(p) == {unit[j].pid : j \in {j \in LookedUp(p) : unit[j].pid # 0}}

\* C19: when several units resolve the same path at the same time and all
\* miss, the only effect is one request per such unit: under every
\* interleaving the cache holds at most one entry for the path, its value is
\* one that a request for that path returned, and every unit that gets a
\* project id gets one that a request for its path returned.
C19_DoubleMissIsBenign ==
  \A p \in Paths :
     /\ lookups[p] = Cardinality(LookedUp(p))
     /\ lookups[p] <= Cardinality({i \in Units : unit[i].path = p})
     /\ p \in DOMAIN cache <=> Returned(p) # {}
     /\ p \in DOMAIN cache => cache[p] \in Returned(p)
     /\ \A i \in Units :
           (unit[i].path = p /\ unit[i].pid # 0) => unit[i].pid \in Returned(p)

\* two units of the same path both missed, their requests returned different
\* values, and the later one is the entry of the cache
C19_Witness ==
  /\ Len(unit) = 2
  /\ unit[1].path = unit[2].path
  /\ unit[1].via = "miss" /\ unit[2].via = "miss"
  /\ unit[1].pid = RemoteId[unit[1].path]
  /\ unit[2].pid = NoneVal
  /\ lookups[unit[1].path] = 2
  /\ cache[unit[1].path] = RemoteId[unit[1].path]

\* C20: the approve call of a record is issued exactly when its approval
\* query reports it as not yet approved, never when it is reported as
\* approved, and in both cases the record proceeds to its merge call.
C20_ApproveIffNotApprovedThenMerge ==
  \A k \in Recs :
     /\ rec[k].na <= 1
     /\ rec[k].na = 1 <=> (rec[k].qstatus = OkStatus /\ ~rec[k].approved)
     /\ (token /\ MutationOver /\ rec[k].qstatus = OkStatus) => rec[k].nm = 1

\* C21: when every remote call comes back, a dispatched batch runs to
\* completion: every fetch unit finishes, every record's approve-then-merge
\* sequence finishes, the run of the command ends, and no unit is cancelled
\* once it has been dispatched.
C21_BatchRunsToCompletion ==
  /\ [](main = "gather" =>
          <>(\A i \in Units : unit[i].pc \in {"done", "raised"}))
  /\ [](main = "mgather" =>
          <>(\A k \in Recs : rec[k].pc \in {"merged", "failed", "raised"}))
  /\ <>(ended # NotEnded)
  /\ [](\A k \in Recs : ~rec[k].cancelled)

\* C22: the records of the mutation stage are exactly the records that the
\* fetch stage of the same run returned: each fetched record has one task,
\* no other record has one, no call of a record is issued twice, and when
\* process_all_mrs returns every fetched record has had its approval query
\* and its merge call once and the reported total is the number of fetched
\* records.
C22_MutatesExactlyFetched ==
  (main \in {"mgather", "mreturned", "mraised", "done"}) =>
     /\ mrs = Flatten([i \in 1..Len(unit) |-> unit[i].out])
     /\ Len(rec) = Len(mrs)
     /\ \A k \in Recs :
           /\ rec[k].mr = mrs[k]
           /\ rec[k].nq <= 1 /\ rec[k].na <= 1 /\ rec[k].nm <= 1
     /\ main \in {"mreturned", "done"} =>
           /\ \A k \in Recs : rec[k].nq = 1 /\ rec[k].nm = 1
           /\ result.total = Len(mrs)
     /\ \A l \in DOMAIN printed : l.msg = "Merged out of" => l.n = Len(mrs)

C22_Witness ==
  /\ main = "done"
  /\ Len(mrs) = 2
  /\ mrs[1].project_path # mrs[2].project_path
  /\ \A k \in Recs : rec[k].nm = 1
  /\ SummaryLine(2, 2) \in DOMAIN printed

\* C23: within the records of one project the order of the list response is
\* kept: the records a unit keeps are in the order of the response body, and
\* they are in that same order in the sequence get_renovate_mrs returns.
C23_ProjectOrderPreserved ==
  \A i \in Units :
     \A a \in DOMAIN unit[i].out : \A b \in DOMAIN unit[i].out :
        a < b =>
           /\ \E x \in DOMAIN unit[i].body : \E y \in DOMAIN unit[i].body :
                 /\ x < y
                 /\ unit[i].out[a] = Tag(unit[i].body[x], unit[i].path)
                 /\ unit[i].out[b] = Tag(unit[i].body[y], unit[i].path)
           /\ main = "returned" =>
                 \E u \in DOMAIN mrs : \E v \in DOMAIN mrs :
                    /\ u < v
                    /\ mrs[u] = unit[i].out[a]
                    /\ mrs[v] = unit[i].out[b]

C23_Witness ==
  /\ main = "returned"
  /\ \E i \in Units :
        /\ Len(unit[i].out) = 2
        /\ unit[i].out[1].iid < unit[i].out[2].iid
  /\ Len(mrs) >= 2

\* the number of records of the work items before work item i
RECURSIVE OutsBefore(_)
OutsBefore(i) ==
  IF i <= 1 THEN 0 ELSE OutsBefore(i - 1) + Len(unit[i - 1].out)

\* C24: get_renovate_mrs returns the record lists of the projects one after
\* the other in the order of project_paths, whatever the order in which the
\* work items complete: the sequence is fixed by the input and the responses.
C24_InputOrderConcatenation ==
  main = "returned" =>
     /\ Len(unit) = Len(project_paths)
     /\ Len(mrs) = OutsBefore(Len(unit) + 1)
     /\ \A i \in Units : \A a \in DOMAIN unit[i].out :
           /\ mrs[OutsBefore(i) + a] = unit[i].out[a]
           /\ mrs[OutsBefore(i) + a].project_path = project_paths[i]

\* the second work item completed before the first one
C24_Witness ==
  /\ main = "returned"
  /\ Len(unit) = 2
  /\ overtaken
  /\ unit[1].out # << >>
  /\ unit[2].out # << >>
  /\ project_paths[1] # project_paths[2]
  /\ mrs[1].project_path = project_paths[1]
  /\ mrs[Len(mrs)].project_path = project_paths[2]

\* the get_project_id calls started since the last clear: the finished ones
\* and the one whose request is out
CallsStarted == Len(callLog) + (IF cc.pc = "lookup" THEN 1 ELSE 0)
PathsCalled ==
  {callLog[j].path : j \in DOMAIN callLog}
    \cup (IF cc.pc = "lookup" THEN {cc.path} ELSE {})

\* C25: after any sequence of get_project_id calls and clears, hits + misses
\* is the number of calls started since the last clear, and the size of the
\* cache exceeds neither misses nor the number of distinct identifiers
\* looked up since the last clear.
C25_CounterAccounting ==
  /\ hits + misses = CallsStarted
  /\ CurrSize <= misses
  /\ CurrSize <= Cardinality(PathsCalled)
  /\ DOMAIN cache \subseteq PathsCalled

C25_Witness ==
  /\ shown.cleared
  /\ Len(callLog) = 2
  /\ callLog[1].kind = "ok"
  /\ callLog[2].kind = "hit"
  /\ lookups[callLog[1].path] = 2
  /\ hits = 1 /\ misses = 1 /\ CurrSize = 1

\* -------------------------------------------------- claims on SpecPool
\* C15: there is no concurrency cap: a dispatched unit never has to wait for
\* a worker, so all n units can be in flight at the same time for every n.
C15_NoConcurrencyCap ==
  \A i \in Units : unit[i].pc = "queued" => ENABLED FetchStart(i)

\* C15 (amended): the units run on the executor's worker threads: never more
\* than MaxWorkers are in flight, and a dispatched unit starts exactly when
\* fewer than MaxWorkers are.
C15_WorkerPoolCap ==
  /\ Cardinality(Running(unit)) <= MaxWorkers
  /\ \A i \in Units : unit[i].pc = "queued" =>
        (ENABLED FetchStart(i) <=> Cardinality(Running(unit)) < MaxWorkers)

C15_Witness ==
  /\ Cardinality(Running(unit)) = MaxWorkers
  /\ \E i \in Units : unit[i].pc = "queued"
  /\ Len(unit) > MaxWorkers

\* ------------------------------------------------- claims on SpecPaths
\* C17: for non-empty nros and types get_project_paths returns exactly
\* Len(nros) * Len(types) identifiers, one per (nro, type) pair, each made of
\* the base path and the template substitution of that pair, nros in the
\* outer loop and types in the inner loop.
C17_CrossProductInOrder ==
  (main = "resolved" /\ pathArgs.nros # << >> /\ pathArgs.types # << >>) =>
     LET base == IF pathArgs.base_path = "" THEN DefaultBasePath
                 ELSE pathArgs.base_path
         n == Len(pathArgs.nros)
         t == Len(pathArgs.types)
     IN  /\ Len(project_paths) = n * t
         /\ \A a \in 1..n : \A b \in 1..t :
               project_paths[(a - 1) * t + b] =
                 <<base, "/", pathArgs.nros[a], "/">>
                   \o Format(pathArgs.template, pathArgs.nros[a],
                             pathArgs.types[b])

C17_Witness ==
  /\ main = "resolved"
  /\ pathArgs.nros = <<"fr", "be">>
  /\ pathArgs.types = <<"infra", "data">>
  /\ pathArgs.template = <<NroField, "-", TypeField>>
  /\ project_paths[2] = <<"group", "/", "fr", "/", "fr", "-", "data">>
  /\ project_paths[3] = <<"group", "/", "be", "/", "be", "-", "infra">>

\* ------------------------------------------------ claims on SpecPolicy
\* C26: the mapping returned by _fetch_all_policy_tags has a key for an NRO
\* exactly when a fetch of that NRO finished without error; a failing gcloud
\* command or unparsable output of one NRO is reported for that NRO only and
\* takes away no entry of another NRO; the call returns only when every work
\* item has completed.
C26_PolicyPartialFailure ==
  main = "preturned" =>
     /\ \A i \in Tasks : policy.task[i].pc = "done"
     /\ \A n \in Nros :
           /\ n \in DOMAIN policy.all_policy_tags <=>
                 \E i \in Tasks : policy.task[i].nro = n /\ policy.task[i].why = "ok"
           /\ n \in DOMAIN policy.all_policy_tags =>
                 \E i \in Tasks :
                    /\ policy.task[i].nro = n
                    /\ policy.task[i].why = "ok"
                    /\ policy.all_policy_tags[n] = policy.task[i].nro_policy_tags
           /\ BagSum(printed, {l \in DOMAIN printed : l.kind = "red" /\ l.what = n})
                 = Cardinality({i \in Tasks : policy.task[i].nro = n
                                              /\ policy.task[i].why \in {"failed", "garbled"}})
           /\ BagSum(printed, {l \in DOMAIN printed : l.kind = "green" /\ l.what = n})
                 = Cardinality({i \in Tasks : policy.task[i].nro = n
                                              /\ policy.task[i].why = "ok"})

\* the first NRO fails, the second one is fetched and has its entry
C26_Witness ==
  /\ main = "preturned"
  /\ policy.nros = <<"be", "fr">>
  /\ policy.task[1].why = "failed"
  /\ policy.task[2].why = "ok"
  /\ DOMAIN policy.all_policy_tags = {"fr"}
  /\ policy.all_policy_tags["fr"] = [t \in {"restricted"} |-> {"pii"}]

\* --------------------------------------------------- claims on SpecGit
HasRun(command) == \E j \in DOMAIN git.ran : git.ran[j] = command

Cancelled ==
  /\ ended = [how |-> "returned", code |-> 0]
  /\ GitLine("yellow", "Operation cancelled") \in DOMAIN printed

\* C27: reset_history runs commit-tree and then reset only if both prompts
\* were answered yes; if one of them is declined, no git command that changes
\* the repository is run and the command ends with 'Operation cancelled'.
C27_ResetNeedsBothConfirmations ==
  git.cmd = "reset_history" =>
     /\ (git.ran # << >> \/ git.repo # git.repo0) =>
           (Answered("sure", TRUE) /\ Answered("last_chance", TRUE))
     /\ \A j \in DOMAIN git.ran :
           git.ran[j] = "reset" => (j = 2 /\ git.ran[1] = "commit-tree")
     /\ git.repo.log # git.repo0.log => HasRun("reset")
     /\ (ended # NotEnded /\ (Answered("sure", FALSE) \/ Answered("last_chance", FALSE))) =>
           /\ git.ran = << >>
           /\ git.repo = git.repo0
           /\ Cancelled

C27_Witness ==
  /\ git.cmd = "reset_history"
  /\ Answered("sure", TRUE)
  /\ Answered("last_chance", TRUE)
  /\ git.ran = <<"commit-tree", "reset">>
  /\ Len(git.repo0.log) = 3
  /\ git.repo.log = <<InitialCommit>>
  /\ ended = [how |-> "returned", code |-> 0]

\* C28: squash runs 'reset --soft' and 'commit' only when the current branch
\* differs from the base branch, the branch has a commit over the base and
\* the final confirmation was answered yes; on the base branch it ends with
\* exit code 1; with no commit, or when the user declines, the repository is
\* left unchanged.
C28_SquashGuards ==
  git.cmd = "squash" =>
     /\ (HasRun("reset --soft") \/ HasRun("commit") \/ git.repo # git.repo0) =>
           /\ git.repo0.branch # git.base_branch
           /\ BranchCommits(git.repo0) # << >>
           /\ Answered("squash", TRUE)
     /\ \A j \in DOMAIN git.ran :
           git.ran[j] = "commit" => (j > 1 /\ git.ran[j - 1] = "reset --soft")
     /\ (ended # NotEnded /\ git.repo0.branch = git.base_branch) =>
           (ended.code = 1 /\ git.repo = git.repo0)
     /\ (ended # NotEnded
           /\ (BranchCommits(git.repo0) = << >> \/ Answered("squash", FALSE))) =>
           git.repo = git.repo0

C28_Witness ==
  /\ git.cmd = "squash"
  /\ git.repo0.branch = "feature"
  /\ Len(BranchCommits(git.repo0)) = 2
  /\ Answered("prefix", TRUE)
  /\ Answered("squash", TRUE)
  /\ git.ran = <<"rev-parse", "log", "merge-base", "reset --soft", "commit">>
  /\ git.repo.log = <<RootMessage, FixPrefix \o PlainMessage>>
  /\ ended = [how |-> "returned", code |-> 0]

====
